---- MODULE Spec2Model ----
(***************************************************************************)
(* Model of the order_paid signal handler handle_order_creation of the     *)
(* pretix FIRA plugin (pretix_FIRA_plugin/signals.py).                     *)
(*                                                                         *)
(* Money: a Decimal price with two fraction digits is held as an integer   *)
(* number of cents.  The unrounded float amounts of the totals loop are    *)
(* held exactly as integers in units of 1/Scale cent (Scale = 105), so     *)
(* that the division by 1 + taxRate = 1.05 is exact.  round(x, 2) becomes  *)
(* Round2, the round-half-to-even of such an amount to whole cents; the    *)
(* float error of the real computation (about 1e-13) is far smaller than   *)
(* the distance of any of these amounts to a rounding tie (at least 1/42   *)
(* cent), so the integer model yields the 2-decimal values json.dumps      *)
(* writes into the request.                                                *)
(*                                                                         *)
(* Python None is the empty tuple <<>> and a present value v is <<v>>.     *)
(* An f-string is the tuple of its pieces.                                 *)
(***************************************************************************)
EXTENDS Integers, Sequences, FiniteSets, TLC

VARIABLES
    positions,      \* order.positions.all(): sequence of [item, price]
    fees,           \* part of order.total that is not a position price
    api_key,        \* FIRA_API_KEY in the process configuration, <<>> if unset
    pc,             \* position of the handler
    positions_read, \* TRUE once order.positions.all() has been iterated
    items_grouped,  \* the defaultdict, as a sequence in insertion order
    lineItems,      \* the lineItems list
    headers,        \* request headers, <<>> before they are built
    data,           \* the request payload, <<>> before it is built
    sent,           \* sequence of payloads handed to requests.post
    response,       \* result of requests.post, <<>> before the call
    log,            \* LogEntry rows created for the order (action_type)
    printed         \* lines written by print()

vars == <<positions, fees, api_key, pc, positions_read, items_grouped,
          lineItems, headers, data, sent, response, log, printed>>

----------------------------------------------------------------------------
(* Bounds of the explored inputs *)

MaxPositions == 3

Prices == {0, 10, 1000}

Fees == {0, 50}

----------------------------------------------------------------------------
(* The catalog: items with meta_data, internal_name and name *)

Items ==
    << [meta_data |-> [FIRAID |-> "A"],  internal_name |-> "",        name |-> "Ticket"],
       [meta_data |-> [FIRAID |-> "A"],  internal_name |-> "VIP-int", name |-> "VIP"],
       [meta_data |-> [FIRAID |-> "B"],  internal_name |-> "",        name |-> "Shirt"],
       [meta_data |-> [FIRAID |-> "-1"], internal_name |-> "",        name |-> "Donation"],
       [meta_data |-> [FIRAID |-> ""],   internal_name |-> "",        name |-> "Blank"],
       [meta_data |-> [category |-> "addon"], internal_name |-> "",   name |-> "Addon"] >>

\* the prices at which each item is sold in the explored orders
PricesOf == << Prices, Prices \ {0}, Prices \ {0}, {0, 10}, {0}, {0} >>

Position == UNION {[item : {i}, price : PricesOf[i]] : i \in 1..Len(Items)}

RECURSIVE SeqsUpTo(_, _)
SeqsUpTo(S, n) ==
    IF n = 0 THEN {<<>>}
    ELSE LET shorter == SeqsUpTo(S, n - 1)
         IN  shorter \cup {Append(s, x) : s \in {t \in shorter : Len(t) = n - 1}, x \in S}

RECURSIVE SumPrices(_)
SumPrices(ps) == IF ps = <<>> THEN 0 ELSE Head(ps).price + SumPrices(Tail(ps))

\* order.total
total == SumPrices(positions) + fees

\* order.code
order_code == "ABC12"

----------------------------------------------------------------------------
(* Python helpers *)

\* dict.get(key): None when the key is absent
Get(d, key) == IF key \in DOMAIN d THEN <<d[key]>> ELSE <<>>

\* dict.get(key, default)
GetDefault(d, key, default) == IF key \in DOMAIN d THEN d[key] ELSE default

\* truth value of an optional string: None and "" are false
Truthy(opt) == opt # <<>> /\ opt[1] # ""

\* a or b on strings
StrOr(a, b) == IF a # "" THEN a ELSE b

\* str(int) for the status codes in use
Str(n) ==
    CASE n = 200 -> "200"
      [] n = 201 -> "201"
      [] n = 500 -> "500"

----------------------------------------------------------------------------
(* Line-item grouping: the loop over order.positions.all() *)

\* the default factory of items_grouped
DefaultEntry == [quantity |-> 0, price |-> 0, name |-> ""]

\* index of the entry of key fira_id in the grouped sequence, 0 if missing
IndexOf(acc, key) ==
    IF \E i \in 1..Len(acc) : acc[i].fira_id = key
    THEN CHOOSE i \in 1..Len(acc) : acc[i].fira_id = key
    ELSE 0

\* variant: the sentinel "-1" is not tested
ReportableNoSentinel(fira_id) == Truthy(fira_id)

\* the test that admits a position to the invoice
Reportable(fira_id) == Truthy(fira_id) /\ fira_id # <<"-1">>

\* variant: the quantity is assigned 1 instead of being incremented
AddPositionAssignsOne(acc, position) ==
    LET item    == Items[position.item]
        fira_id == Get(item.meta_data, "FIRAID")
    IN  IF Reportable(fira_id)
        THEN LET key  == fira_id[1]
                 acc1 == IF IndexOf(acc, key) = 0
                         THEN Append(acc, [fira_id  |-> key,
                                           quantity |-> DefaultEntry.quantity,
                                           price    |-> DefaultEntry.price,
                                           name     |-> DefaultEntry.name])
                         ELSE acc
                 i    == IndexOf(acc1, key)
                 e1   == [acc1[i] EXCEPT !.quantity = 1]
                 e2   == IF e1.price = 0
                         THEN [e1 EXCEPT !.price = position.price,
                                         !.name  = StrOr(item.internal_name, item.name)]
                         ELSE e1
             IN  [acc1 EXCEPT ![i] = e2]
        ELSE acc

\* one iteration of the loop body
AddPosition(acc, position) ==
    LET item    == Items[position.item]
        fira_id == Get(item.meta_data, "FIRAID")
    IN  IF Reportable(fira_id)
        THEN LET key  == fira_id[1]
                 acc1 == IF IndexOf(acc, key) = 0
                         THEN Append(acc, [fira_id  |-> key,
                                           quantity |-> DefaultEntry.quantity,
                                           price    |-> DefaultEntry.price,
                                           name     |-> DefaultEntry.name])
                         ELSE acc
                 i    == IndexOf(acc1, key)
                 e1   == [acc1[i] EXCEPT !.quantity = @ + 1]
                 e2   == IF e1.price = 0
                         THEN [e1 EXCEPT !.price = position.price,
                                         !.name  = StrOr(item.internal_name, item.name)]
                         ELSE e1
             IN  [acc1 EXCEPT ![i] = e2]
        ELSE acc

RECURSIVE GroupFrom(_, _)
GroupFrom(ps, acc) ==
    IF ps = <<>> THEN acc ELSE GroupFrom(Tail(ps), AddPosition(acc, Head(ps)))

\* the whole loop, starting from the empty defaultdict
Group(ps) == GroupFrom(ps, <<>>)

\* taxRate 0.05, as a percentage
TaxRatePct == 5

\* the list comprehension over items_grouped.items()
MakeLineItems(grouped) ==
    [i \in 1..Len(grouped) |->
        [productCode |-> grouped[i].fira_id,
         lineItemId  |-> grouped[i].fira_id,
         quantity    |-> grouped[i].quantity,
         price       |-> grouped[i].price,
         name        |-> grouped[i].name,
         taxRate     |-> TaxRatePct]]

----------------------------------------------------------------------------
(* Invoice totals *)

\* unrounded amounts are integers in units of 1/Scale cent
Scale == 100 + TaxRatePct

\* variant: truncation to whole cents instead of rounding
Round2Truncate(n) == n \div Scale

\* round(x, 2): nearest cent, ties to even
Round2(n) ==
    LET q == n \div Scale
        r == n % Scale
    IN  IF 2 * r < Scale THEN q
        ELSE IF 2 * r > Scale THEN q + 1
        ELSE IF q % 2 = 0 THEN q ELSE q + 1

item_brutto(item) == item["price"] * item["quantity"] * Scale

item_netto(item) == (item_brutto(item) * 100) \div (100 + item["taxRate"])

item_tax(item) == item_brutto(item) - item_netto(item)

\* the accumulation loop: unrounded sums over all line items
RECURSIVE SumTotals(_)
SumTotals(items) ==
    IF items = <<>>
    THEN [brutto |-> 0, netto |-> 0, tax |-> 0]
    ELSE LET rest == SumTotals(Tail(items))
             item == Head(items)
         IN  [brutto |-> item_brutto(item) + rest.brutto,
              netto  |-> item_netto(item) + rest.netto,
              tax    |-> item_tax(item) + rest.tax]

\* variant: each line is rounded before it is added (round-then-sum)
RECURSIVE SumRounded(_)
SumRounded(items) ==
    IF items = <<>>
    THEN [brutto |-> 0, netto |-> 0, tax |-> 0]
    ELSE LET rest == SumRounded(Tail(items))
             item == Head(items)
         IN  [brutto |-> Round2(item_brutto(item)) + rest.brutto,
              netto  |-> Round2(item_netto(item)) + rest.netto,
              tax    |-> Round2(item_tax(item)) + rest.tax]

TotalsPerLine(items) == SumRounded(items)

\* the three rounded totals, in cents
Totals(items) ==
    LET sums == SumTotals(items)
    IN  [brutto |-> Round2(sums.brutto),
         netto  |-> Round2(sums.netto),
         tax    |-> Round2(sums.tax)]

----------------------------------------------------------------------------
(* The outside world: configuration and the FIRA endpoint *)

ApiKeys == {<<>>, <<"secret">>}

\* response bodies (response.text)
BodyEmptyObject == "{}"
BodyInvoiceNumberOnly == "{\"invoiceNumber\":\"X1\"}"
BodyFull == "{\"invoiceNumber\":\"X1\",\"invoiceFirstNumber\":\"7\",\"businessPremise\":\"P1\",\"paymentTerminal\":\"T1\",\"jir\":\"J-9\"}"
BodyArray == "[]"
BodyNotJson == "internal error"

Bodies == {BodyEmptyObject, BodyInvoiceNumberOnly, BodyFull, BodyArray, BodyNotJson}

\* response.json(): the parsed value, or the error it raises
Json(text) ==
    CASE text = BodyEmptyObject -> [type |-> "object", value |-> <<>>]
      [] text = BodyInvoiceNumberOnly ->
            [type |-> "object", value |-> [invoiceNumber |-> "X1"]]
      [] text = BodyFull ->
            [type |-> "object",
             value |-> [invoiceNumber |-> "X1", invoiceFirstNumber |-> "7",
                        businessPremise |-> "P1", paymentTerminal |-> "T1",
                        jir |-> "J-9"]]
      [] text = BodyArray -> [type |-> "array", value |-> <<>>]
      [] OTHER -> [type |-> "error", value |-> <<>>]

JSONDecodeError == "Expecting value: line 1 column 1 (char 0)"
AttributeError == "'list' object has no attribute 'get'"
ConnectionError == "Connection refused"

\* what requests.post can do: raise, or return a status and a body
Responses ==
    {[kind |-> "raise", status_code |-> 0, text |-> "", error |-> ConnectionError]}
    \cup {[kind |-> "http", status_code |-> 200, text |-> b, error |-> ""] : b \in Bodies}
    \cup {[kind |-> "http", status_code |-> c, text |-> b, error |-> ""] :
            c \in {201, 500}, b \in {BodyNotJson, BodyInvoiceNumberOnly}}

----------------------------------------------------------------------------
(* Audit-log entries (action_type) and diagnostic lines *)

ZeroTotalEntry == <<"FIRA invoice not created - order total is 0">>

SuccessEntry(invoice_first, business_premise, payment_terminal, jir) ==
    <<"FIRA fiscalized success, racun number: ", invoice_first, "-",
      business_premise, "-", payment_terminal, ", JIR: ", jir>>

error_message(resp) == <<"Status ", Str(resp.status_code), ": ", resp.text>>

RejectedEntry(resp) == <<"FIRA invoice creation FAILED. ">> \o error_message(resp)

ExceptionEntry(e) == <<"FIRA invoice creation FAILED with exception: ", e>>

PrintZeroTotal == <<"Order ", order_code, " has total of 0. Skipping FIRA invoice creation.">>
PrintNoItems == <<"No valid items with FIRAID for order ", order_code, ". Skipping FIRA invoice creation.">>
PrintSending == <<"Sending to FIRA: ">>
PrintSuccess(invoice_number) ==
    <<"FIRA invoice created successfully for order ", order_code, ": ", invoice_number>>
PrintRejected(resp) ==
    <<"Failed to create FIRA invoice for order ", order_code, ": ">> \o error_message(resp)
PrintException(e) ==
    <<"Exception while creating FIRA invoice for order ", order_code, ": ", e>>

----------------------------------------------------------------------------
(* The handler, step by step *)

Init ==
    /\ positions \in SeqsUpTo(Position, MaxPositions)
    /\ fees \in Fees
    /\ api_key \in ApiKeys
    /\ pc = "start"
    /\ positions_read = FALSE
    /\ items_grouped = <<>>
    /\ lineItems = <<>>
    /\ headers = <<>>
    /\ data = <<>>
    /\ sent = <<>>
    /\ response = <<>>
    /\ log = <<>>
    /\ printed = <<>>

\* variant: the zero-total branch logs and prints but does not return
CheckTotalNoReturn ==
    /\ pc = "start"
    /\ IF total = 0
       THEN /\ log' = Append(log, ZeroTotalEntry)
            /\ printed' = Append(printed, PrintZeroTotal)
       ELSE UNCHANGED <<log, printed>>
    /\ pc' = "group"
    /\ UNCHANGED <<positions, fees, api_key, positions_read, items_grouped,
                   lineItems, headers, data, sent, response>>

\* if order.total == 0: log, print, return
CheckTotal ==
    /\ pc = "start"
    /\ IF total = 0
       THEN /\ log' = Append(log, ZeroTotalEntry)
            /\ printed' = Append(printed, PrintZeroTotal)
            /\ pc' = "returned"
       ELSE /\ pc' = "group"
            /\ UNCHANGED <<log, printed>>
    /\ UNCHANGED <<positions, fees, api_key, positions_read, items_grouped,
                   lineItems, headers, data, sent, response>>

\* for position in order.positions.all(): ...
GroupPositions ==
    /\ pc = "group"
    /\ positions_read' = TRUE
    /\ items_grouped' = Group(positions)
    /\ pc' = "build"
    /\ UNCHANGED <<positions, fees, api_key, lineItems, headers, data, sent,
                   response, log, printed>>

\* lineItems = [...]; if not lineItems: print, return
BuildLineItems ==
    /\ pc = "build"
    /\ lineItems' = MakeLineItems(items_grouped)
    /\ IF lineItems' = <<>>
       THEN /\ printed' = Append(printed, PrintNoItems)
            /\ pc' = "returned"
       ELSE /\ pc' = "configure"
            /\ UNCHANGED printed
    /\ UNCHANGED <<positions, fees, api_key, positions_read, items_grouped,
                   headers, data, sent, response, log>>

\* url = config(...); headers = {'FIRA-Api-Key': config('FIRA_API_KEY'), ...}
\* config() of a name that is unset and has no default raises
\* UndefinedValueError, outside any try
Configure ==
    /\ pc = "configure"
    /\ IF api_key = <<>>
       THEN /\ pc' = "raised"
            /\ UNCHANGED headers
       ELSE /\ headers' = [FIRA_Api_Key |-> api_key[1],
                           Content_Type |-> "application/json"]
            /\ pc' = "totals"
    /\ UNCHANGED <<positions, fees, api_key, positions_read, items_grouped,
                   lineItems, data, sent, response, log, printed>>

\* the totals loop, the rounding, the payload and the print of it
\* (webshopOrderId, createdAt and currency are copied from the order and
\* are left out of the payload here)
BuildData ==
    /\ pc = "totals"
    /\ LET t == Totals(lineItems)
       IN  data' = [webshopType        |-> "CUSTOM",
                    webshopOrderNumber |-> order_code,
                    paymentType        |-> "KARTICA",
                    taxesIncluded      |-> TRUE,
                    brutto             |-> t.brutto,
                    netto              |-> t.netto,
                    taxValue           |-> t.tax,
                    billingAddress     |-> [country |-> "HR"],
                    lineItems          |-> lineItems]
    /\ printed' = Append(printed, PrintSending)
    /\ pc' = "send"
    /\ UNCHANGED <<positions, fees, api_key, positions_read, items_grouped,
                   lineItems, headers, sent, response, log>>

\* response = requests.post(url, json=data, headers=headers)
Post ==
    /\ pc = "send"
    /\ \E r \in Responses :
          /\ sent' = Append(sent, data)
          /\ response' = r
    /\ pc' = "classify"
    /\ UNCHANGED <<positions, fees, api_key, positions_read, items_grouped,
                   lineItems, headers, data, log, printed>>

\* variant: every 2xx status is taken as success (response.ok)
ClassifyOk ==
    /\ pc = "classify"
    /\ IF response.kind = "raise"
       THEN /\ log' = Append(log, ExceptionEntry(response.error))
            /\ printed' = Append(printed, PrintException(response.error))
       ELSE IF response.status_code < 300
       THEN LET parsed == Json(response.text)
            IN  IF parsed.type = "error"
                THEN /\ log' = Append(log, ExceptionEntry(JSONDecodeError))
                     /\ printed' = Append(printed, PrintException(JSONDecodeError))
                ELSE IF parsed.type # "object"
                THEN /\ log' = Append(log, ExceptionEntry(AttributeError))
                     /\ printed' = Append(printed, PrintException(AttributeError))
                ELSE LET response_data    == parsed.value
                         invoice_number   == GetDefault(response_data, "invoiceNumber", "Unknown")
                         invoice_first    == GetDefault(response_data, "invoiceFirstNumber", "")
                         business_premise == GetDefault(response_data, "businessPremise", "")
                         payment_terminal == GetDefault(response_data, "paymentTerminal", "")
                         jir              == GetDefault(response_data, "jir", "N/A")
                     IN  /\ log' = Append(log, SuccessEntry(invoice_first, business_premise,
                                                            payment_terminal, jir))
                         /\ printed' = Append(printed, PrintSuccess(invoice_number))
       ELSE /\ log' = Append(log, RejectedEntry(response))
            /\ printed' = Append(printed, PrintRejected(response))
    /\ pc' = "returned"
    /\ UNCHANGED <<positions, fees, api_key, positions_read, items_grouped,
                   lineItems, headers, data, sent, response>>

\* the rest of the try block and its except clause
Classify ==
    /\ pc = "classify"
    /\ IF response.kind = "raise"
       THEN /\ log' = Append(log, ExceptionEntry(response.error))
            /\ printed' = Append(printed, PrintException(response.error))
       ELSE IF response.status_code = 200
       THEN LET parsed == Json(response.text)
            IN  IF parsed.type = "error"
                THEN /\ log' = Append(log, ExceptionEntry(JSONDecodeError))
                     /\ printed' = Append(printed, PrintException(JSONDecodeError))
                ELSE IF parsed.type # "object"
                THEN /\ log' = Append(log, ExceptionEntry(AttributeError))
                     /\ printed' = Append(printed, PrintException(AttributeError))
                ELSE LET response_data    == parsed.value
                         invoice_number   == GetDefault(response_data, "invoiceNumber", "Unknown")
                         invoice_first    == GetDefault(response_data, "invoiceFirstNumber", "")
                         business_premise == GetDefault(response_data, "businessPremise", "")
                         payment_terminal == GetDefault(response_data, "paymentTerminal", "")
                         jir              == GetDefault(response_data, "jir", "N/A")
                     IN  /\ log' = Append(log, SuccessEntry(invoice_first, business_premise,
                                                            payment_terminal, jir))
                         /\ printed' = Append(printed, PrintSuccess(invoice_number))
       ELSE /\ log' = Append(log, RejectedEntry(response))
            /\ printed' = Append(printed, PrintRejected(response))
    /\ pc' = "returned"
    /\ UNCHANGED <<positions, fees, api_key, positions_read, items_grouped,
                   lineItems, headers, data, sent, response>>

Next ==
    \/ CheckTotal
    \/ GroupPositions
    \/ BuildLineItems
    \/ Configure
    \/ BuildData
    \/ Post
    \/ Classify

Spec == Init /\ [][Next]_vars

----------------------------------------------------------------------------
(* Vocabulary of the properties *)

Finished == pc \in {"returned", "raised"}

\* the identifier of a position's item is absent from its meta_data
IdMissing(position) == "FIRAID" \notin DOMAIN Items[position.item].meta_data

\* the identifier of a position's item, when present
IdOf(position) == Items[position.item].meta_data.FIRAID

\* identifiers that are present and not the sentinel
PresentIds(ps) ==
    {IdOf(ps[i]) : i \in {j \in 1..Len(ps) : ~IdMissing(ps[j])}} \ {"-1"}

\* indices of the positions that carry identifier key
Carrying(ps, key) == {i \in 1..Len(ps) : ~IdMissing(ps[i]) /\ IdOf(ps[i]) = key}

\* entries of the grouped sequence for identifier key
EntriesOf(grouped, key) == {i \in 1..Len(grouped) : grouped[i].fira_id = key}

\* the identifier-to-quantity pairs of a grouped sequence
Quantities(grouped) ==
    {<<grouped[i].fira_id, grouped[i].quantity>> : i \in 1..Len(grouped)}

Permuted(ps, f) == [i \in 1..Len(ps) |-> ps[f[i]]]

\* some position passes into the invoice
HasReportable == PresentIds(positions) \ {""} # {}

----------------------------------------------------------------------------
(* C1: an order whose total is 0 is skipped: the zero check comes before   *)
(* any position is read or grouped, exactly one audit-log entry with the   *)
(* zero-total reason is written, no POST is issued, the handler returns.   *)
C1_ZeroTotalSkipped ==
    total = 0 =>
        /\ pc \in {"start", "returned"}
        /\ ~positions_read
        /\ items_grouped = <<>>
        /\ sent = <<>>
        /\ pc = "start" => log = <<>>
        /\ pc = "returned" => /\ log = <<ZeroTotalEntry>>
                              /\ printed = <<PrintZeroTotal>>

C1_Witness ==
    /\ total = 0
    /\ pc = "returned"
    /\ HasReportable
    /\ Len(log) = 1

(* C2: a non-zero order whose positions all lack the identifier or carry   *)
(* the sentinel "-1" (or that has no position) yields no line items, ends  *)
(* skipped with the no-items line, and no POST is made.                    *)
C2_NoItemsSkipped ==
    (/\ total # 0
     /\ \A i \in 1..Len(positions) :
            IdMissing(positions[i]) \/ IdOf(positions[i]) = "-1")
    =>  /\ pc \in {"start", "group", "build", "returned"}
        /\ items_grouped = <<>>
        /\ lineItems = <<>>
        /\ sent = <<>>
        /\ pc = "returned" => printed = <<PrintNoItems>>

C2_Witness ==
    /\ total # 0
    /\ Len(positions) >= 2
    /\ \E i \in 1..Len(positions) : IdMissing(positions[i])
    /\ \E i \in 1..Len(positions) :
          ~IdMissing(positions[i]) /\ IdOf(positions[i]) = "-1"
    /\ \A i \in 1..Len(positions) :
          IdMissing(positions[i]) \/ IdOf(positions[i]) = "-1"
    /\ pc = "returned"
    /\ printed = <<PrintNoItems>>

(* C3: every invocation has written exactly one audit-log record by the    *)
(* time it ends, on every path.                                            *)
C3_ExactlyOneLogEntry == Finished => Len(log) = 1

(* C4: the handler always returns normally; no failure inside it           *)
(* propagates to the dispatcher.                                           *)
C4_NeverRaises == pc # "raised"

(* C5, as claimed: after the POST the recorded outcome is fixed by the      *)
(* transport result; in particular every status-200 response whose body    *)
(* can be parsed gives Success.                                            *)
SuccessPrefix == "FIRA fiscalized success, racun number: "
RejectedPrefix == "FIRA invoice creation FAILED. "
ExceptionPrefix == "FIRA invoice creation FAILED with exception: "

\* where each optional response field lands in the success entry, and the
\* placeholder that stands in for it
FieldSlot ==
    [invoiceFirstNumber |-> 2, businessPremise |-> 4, paymentTerminal |-> 6, jir |-> 8]
Placeholder ==
    [invoiceFirstNumber |-> "", businessPremise |-> "", paymentTerminal |-> "", jir |-> "N/A"]

IsSuccessFor(entry, body) ==
    /\ Len(entry) = 8
    /\ entry[1] = SuccessPrefix
    /\ \A f \in DOMAIN FieldSlot :
          entry[FieldSlot[f]] = IF f \in DOMAIN body THEN body[f] ELSE Placeholder[f]

IsRejectedFor(entry, resp) ==
    /\ Len(entry) = 5
    /\ entry[1] = RejectedPrefix
    /\ resp.status_code = 201 => entry[3] = "201"
    /\ resp.status_code = 500 => entry[3] = "500"
    /\ entry[5] = resp.text

IsTransportFailure(entry) ==
    /\ Len(entry) = 2
    /\ entry[1] = ExceptionPrefix
    /\ entry[2] # ""

Classified == pc = "returned" /\ sent # <<>>

C5_ParseableGivesSuccess ==
    (/\ Classified
     /\ response.kind = "http"
     /\ response.status_code = 200
     /\ Json(response.text).type # "error")
    => IsSuccessFor(log[1], Json(response.text).value)

(* C5, amended: status 200 with a body that parses to a JSON object gives  *)
(* Success with each absent field replaced by its placeholder; any other   *)
(* status gives Rejected carrying the status code and the raw body; a      *)
(* raised transport error, or a status-200 body that cannot be parsed or   *)
(* does not parse to an object, gives TransportFailure with the error      *)
(* description, never Success.                                             *)
C5_OutcomeByTransportResult ==
    Classified =>
        /\ Len(log) = 1
        /\ response.kind = "raise" =>
              log[1] = <<ExceptionPrefix, response.error>>
        /\ (response.kind = "http" /\ response.status_code # 200) =>
              IsRejectedFor(log[1], response)
        /\ (response.kind = "http" /\ response.status_code = 200) =>
              IF Json(response.text).type = "object"
              THEN IsSuccessFor(log[1], Json(response.text).value)
              ELSE IsTransportFailure(log[1])

C5_Witness ==
    /\ Classified
    /\ \/ response.text = BodyInvoiceNumberOnly /\ response.status_code = 200
       \/ response.text = BodyArray /\ response.status_code = 200
       \/ response.text = BodyNotJson /\ response.status_code = 500
    /\ Len(log) = 1

(* C6: each invocation POSTs at most once: exactly once when the order has *)
(* a non-zero total and at least one reportable position, never otherwise; *)
(* the POST precedes the audit-log entry; nothing is sent a second time.   *)
C6_PostExactlyOnce ==
    /\ Len(sent) <= 1
    /\ Finished => Len(sent) = IF total # 0 /\ HasReportable THEN 1 ELSE 0
    /\ (total # 0 /\ log # <<>>) => Len(sent) = 1

(* C7, as claimed: one line item per distinct identifier that is present   *)
(* and not "-1", with quantity the number of positions carrying it.        *)
C7_OneItemPerPresentId ==
    positions_read =>
        \A key \in PresentIds(positions) :
            /\ Cardinality(EntriesOf(items_grouped, key)) = 1
            /\ \A i \in EntriesOf(items_grouped, key) :
                  items_grouped[i].quantity = Cardinality(Carrying(positions, key))

(* C7, amended: one line item per distinct identifier that is present,     *)
(* non-empty and not "-1"; its quantity is >= 1 and equals the number of   *)
(* positions carrying it; positions whose identifier is missing, empty or  *)
(* "-1" add no line item and no quantity; every permutation of the         *)
(* positions yields the same identifiers with the same quantities.         *)
C7_OneItemPerReportableId ==
    pc = "build" =>
        /\ \A key \in PresentIds(positions) \ {""} :
              /\ Cardinality(EntriesOf(items_grouped, key)) = 1
              /\ \A i \in EntriesOf(items_grouped, key) :
                    /\ items_grouped[i].quantity = Cardinality(Carrying(positions, key))
                    /\ items_grouped[i].quantity >= 1
        /\ \A i \in 1..Len(items_grouped) :
              items_grouped[i].fira_id \in PresentIds(positions) \ {""}
        /\ \A f \in Permutations(1..Len(positions)) :
              Quantities(Group(Permuted(positions, f))) = Quantities(items_grouped)

C7_Witness ==
    /\ pc = "build"
    /\ Len(positions) >= 2
    /\ Len(items_grouped) = 1
    /\ items_grouped[1].quantity >= 2
    /\ \E i \in 1..Len(positions) : IdMissing(positions[i]) \/ IdOf(positions[i]) = "-1"

(* C8: the unit price and the name of a line item are those of the first   *)
(* position with its identifier, whatever the prices are.                  *)
FirstCarrying(ps, key) ==
    CHOOSE i \in Carrying(ps, key) : \A j \in Carrying(ps, key) : i <= j

DisplayName(position) ==
    IF Items[position.item].internal_name # ""
    THEN Items[position.item].internal_name
    ELSE Items[position.item].name

C8_PriceAndNameOfFirst ==
    positions_read =>
        \A i \in 1..Len(items_grouped) :
            LET first == positions[FirstCarrying(positions, items_grouped[i].fira_id)]
            IN  /\ items_grouped[i].price = first.price
                /\ items_grouped[i].name = DisplayName(first)

(* C9: the three totals of the request satisfy brutto = netto + taxValue   *)
(* exactly, each having been rounded to 2 decimal places on its own.       *)
C9_TotalsReconcile ==
    data # <<>> => data.brutto = data.netto + data.taxValue

C9_Witness ==
    /\ sent # <<>>
    /\ Len(sent[1].lineItems) >= 2
    /\ sent[1].taxValue > 0
    /\ sent[1].brutto % 21 # 0
    /\ sent[1].brutto = sent[1].netto + sent[1].taxValue

(* C10: the totals are sum-then-round: each is the nearest cent to the     *)
(* unrounded sum over all line items (gross, gross/1.05, gross - net);     *)
(* two positions "A" at 10.00 give quantity 2 and 20.00 / 19.05 / 0.95.    *)
RECURSIVE GrossCents(_)
GrossCents(items) ==
    IF items = <<>> THEN 0
    ELSE Head(items).price * Head(items).quantity + GrossCents(Tail(items))

\* c is the nearest integer to num / den
Nearest(c, num, den) == 2 * (c * den - num) <= den /\ 2 * (num - c * den) <= den

C10_SumThenRound ==
    data # <<>> =>
        LET G == GrossCents(data.lineItems)
        IN  /\ data.brutto = G
            /\ Nearest(data.netto, 20 * G, 21)
            /\ Nearest(data.taxValue, G, 21)
            /\ (positions = <<[item |-> 1, price |-> 1000], [item |-> 1, price |-> 1000]>>)
                  => /\ Len(data.lineItems) = 1
                     /\ data.lineItems[1].productCode = "A"
                     /\ data.lineItems[1].quantity = 2
                     /\ data.lineItems[1].price = 1000
                     /\ data.brutto = 2000
                     /\ data.netto = 1905
                     /\ data.taxValue = 95

C10_Witness ==
    /\ sent # <<>>
    /\ Len(sent[1].lineItems) >= 2
    /\ TotalsPerLine(sent[1].lineItems).netto # sent[1].netto
    /\ Nearest(sent[1].netto, 20 * GrossCents(sent[1].lineItems), 21)

====
